---------------------------- MODULE Spec2Model ----------------------------
(***************************************************************************)
(* A model of src/index.js, the interaction script of the Airbus           *)
(* sustainability page: the rate-limited scroll/resize handlers, the       *)
(* active-section detection, scrollToElement and the history, and the      *)
(* startup sequence.                                                       *)
(*                                                                         *)
(* Time is counted in milliseconds.  A timer created by setTimeout(f, d)   *)
(* is taken to run exactly d ms later: time does not advance past a due    *)
(* timer, and a due timer runs before any further event is delivered.      *)
(* Strings are sequences of symbols; "#" is one symbol and an element id   *)
(* is one symbol, so that substring(1) is Tail and `#${id}` is             *)
(* <<"#">> \o <<id>>.                                                      *)
(***************************************************************************)
EXTENDS Integers, Sequences, FiniteSets, TLC

(***************************************************************************)
(* Program constants.                                                      *)
(***************************************************************************)
NavbarWait      == 16
ActiveWait      == 100
ResizeWait      == 250
ResetDelay      == 100
HashDelay       == 300
PopstateDelay   == 100
FeedbackDelay   == 2000
scrollThreshold == 80

(***************************************************************************)
(* Bounds of the model.                                                    *)
(***************************************************************************)
Step           == 10   \* the environment lets Step ms pass, or runs to the next deadline
ScrollStep     == 45   \* scroll positions are multiples of ScrollStep
MaxScrollSteps == 3
SectionHeight  == 50   \* the three sections are stacked, each this tall
MaxHistory     == 3    \* entries of the session history
MaxPopTimers   == 1    \* deferred popstate callbacks pending at once
MaxCalls       == 5    \* scroll and resize events delivered (SpecThrottle)
MaxEvents      == 3    \* scroll and resize events delivered (SpecScroll)
MaxSiteEvents  == 2    \* user events delivered (Spec)
MaxFeedback    == 2    \* feedback timers of the download button pending at once
MaxInputs      == 2    \* clicks and keydowns of a run of SpecInput
MaxRect        == 100  \* bounding-box coordinates tried on isElementVisible (SpecVisible)

Heights     == {100, 200}
VisHeights  == {10, 90}
Coords      == (0 - MaxRect \div 5)..MaxRect
ScrollStops == {k * ScrollStep : k \in 0..MaxScrollSteps}

sections  == <<"homepage", "performance", "report">>
SectionIds == {sections[i] : i \in 1..Len(sections)}
Critical  == SectionIds \cup {"nav"}
Wrappers  == {"navbar", "active", "resize"}

Wait(w) == CASE w = "navbar" -> NavbarWait
             [] w = "active" -> ActiveWait
             [] w = "resize" -> ResizeWait

\* the hrefs of the a.smooth-scroll links of the page
LinkHrefs == {<<"#", "homepage">>, <<"#", "performance">>, <<"#", "report">>, <<"#">>}

Min(a, b) == IF a < b THEN a ELSE b
Max(a, b) == IF a > b THEN a ELSE b

VARIABLES
  pc,           \* "script" | "loading" | "ready" | "unloaded"
  readyState,   \* document.readyState when the script runs
  present,      \* the critical elements the document holds
  scrollY, innerHeight, clientHeight,
  rect,         \* the bounding box handed to isElementVisible (SpecVisible)
  visible,      \* its answer
  nav,          \* [scrolled, label]: class and aria-label of <nav>
  link,         \* href -> [active, aria]
  vh,           \* the --vh custom property, in hundredths of a pixel
  scrollRestoration,
  listeners,    \* <<type, handler>> in registration order
  timers,       \* the pending timers: [cb, k, rem, val, hash]
  timeout,      \* wrapper -> the handle its closure holds (0: undefined)
  hist, hidx,   \* session history (URL records) and the current entry
  focus,        \* id of the focused element, or "none"
  eff,          \* what the last handler did
  err,          \* an exception escaped a handler
  open,         \* wrapper -> a call is waiting for its invocation
  sinceCall,    \* wrapper -> ms since its last call (while open)
  lastVal,      \* wrapper -> the argument of its last call
  age,          \* wrapper -> ms since the first call still waiting (saturating)
  dl,           \* the button of the download link: [text, disabled]
  events        \* user events delivered so far (saturating at MaxCalls)

vars == <<pc, readyState, present, scrollY, innerHeight, clientHeight, rect,
          visible, nav, link, vh, scrollRestoration, listeners, timers,
          timeout, hist, hidx, focus, eff, err, open, sinceCall, lastVal, age, dl,
          events>>

(***************************************************************************)
(* Timers.                                                                 *)
(***************************************************************************)
Pending(tms, cb) == {t \in tms : t.cb = cb}

NewHandle(tms, cb) ==
  CHOOSE k \in 1..(Cardinality(tms) + 1) :
    /\ \A t \in Pending(tms, cb) : t.k # k
    /\ \A j \in 1..(k - 1) : \E t \in Pending(tms, cb) : t.k = j

setTimeout(tms, cb, k, delay, val, hash) ==
  tms \cup {[cb |-> cb, k |-> k, rem |-> delay, val |-> val, hash |-> hash]}

clearTimeout(tms, cb, k) == {t \in tms : ~(t.cb = cb /\ t.k = k)}

\* A wrapper that arms a new timer without clearing the pending one.
executedFunctionNoClear(ts, w, val) ==
  LET k == NewHandle(ts.timers, w)
  IN  [timers  |-> setTimeout(ts.timers, w, k, Wait(w), val, <<>>),
       timeout |-> [ts.timeout EXCEPT ![w] = k],
       invoked |-> ts.invoked]

\* A throttle that keeps one `timeout` for all wrappers.
executedFunctionShared(ts, w, val) ==
  LET cleared == {t \in ts.timers : t.cb \notin Wrappers}
      k == NewHandle(cleared, w)
  IN  [timers  |-> setTimeout(cleared, w, k, Wait(w), val, <<>>),
       timeout |-> [ts.timeout EXCEPT ![w] = k],
       invoked |-> ts.invoked]

\* A throttle proper: a call made while a timer is pending leaves it alone.
executedFunctionKeep(ts, w, val) ==
  IF Pending(ts.timers, w) # {}
  THEN ts
  ELSE LET k == NewHandle(ts.timers, w)
       IN  [timers  |-> setTimeout(ts.timers, w, k, Wait(w), val, <<>>),
            timeout |-> [ts.timeout EXCEPT ![w] = k],
            invoked |-> ts.invoked]

\* The wrapper throttle(func, wait) and debounce(func, wait) return:
\* clearTimeout(timeout); timeout = setTimeout(later, wait).  `invoked` lists
\* the calls of func made before the wrapper returns: it makes none.
executedFunction(ts, w, val) ==
  LET cleared == clearTimeout(ts.timers, w, ts.timeout[w])
      k == NewHandle(cleared, w)
  IN  [timers  |-> setTimeout(cleared, w, k, Wait(w), val, <<>>),
       timeout |-> [ts.timeout EXCEPT ![w] = k],
       invoked |-> ts.invoked]

RECURSIVE CallAll(_, _, _)
CallAll(ws, ts, val) ==
  IF ws = <<>> THEN ts
  ELSE CallAll(Tail(ws), executedFunction(ts, Head(ws), val), val)

\* the handlers registered for an event type, in registration order
RECURSIVE HandlersOf(_, _)
HandlersOf(ls, type) ==
  IF ls = <<>> THEN <<>>
  ELSE (IF Head(ls)[1] = type THEN <<Head(ls)[2]>> ELSE <<>>)
       \o HandlersOf(Tail(ls), type)

Due(tms) == {t \in tms : t.rem = 0}

(***************************************************************************)
(* isElementVisible(element, 0.3).  windowHeight * (1 - 0.3) and           *)
(* windowHeight * 0.3 are IEEE doubles: for integer operands the           *)
(* comparisons agree with the exact ones except where the product 0.7 * h  *)
(* is an integer that the multiplication rounds below.                     *)
(***************************************************************************)
RECURSIVE Pow2Floor(_)
Pow2Floor(v) == IF v < 2 THEN 1 ELSE 2 * Pow2Floor(v \div 2)

\* x <= h * (1 - 0.3), as the double arithmetic decides it
LeqTimes07(x, h) ==
  IF 10 * x < 7 * h THEN TRUE
  ELSE IF 10 * x > 7 * h THEN FALSE
  ELSE h = 0 \/ 2 * h <= 5 * Pow2Floor(x)

\* x >= h * 0.3, as the double arithmetic decides it
GeqTimes03(x, h) == 10 * x >= 3 * h

\* the test with the two bounds exchanged
isElementVisibleSwapped(exists, r, ih, ch) ==
  IF ~exists THEN FALSE
  ELSE LET windowHeight == IF ih # 0 THEN ih ELSE ch
       IN  GeqTimes03(r.top, windowHeight) /\ LeqTimes07(r.bottom, windowHeight)

isElementVisible(exists, r, ih, ch) ==
  IF ~exists THEN FALSE
  ELSE LET windowHeight == IF ih # 0 THEN ih ELSE ch
       IN  LeqTimes07(r.top, windowHeight) /\ GeqTimes03(r.bottom, windowHeight)

\* getBoundingClientRect of a section: the sections are stacked from the top
\* of the document in the order of `sections`
Index(id) == CHOOSE i \in 1..Len(sections) : sections[i] = id
RectOf(id, y) == [top    |-> (Index(id) - 1) * SectionHeight - y,
                  bottom |-> Index(id) * SectionHeight - y]

SectionVisible(pres, id, y, ih, ch) ==
  id \in pres /\ isElementVisible(TRUE, RectOf(id, y), ih, ch)

(***************************************************************************)
(* Navbar.                                                                 *)
(***************************************************************************)
\* handleNavbarScroll without the `if (nav)` guard
handleNavbarScrollUnguarded(pres, y, nv) ==
  IF "nav" \in pres
  THEN [nav |-> [scrolled |-> y > scrollThreshold,
                 label    |-> IF y > scrollThreshold THEN "visible" ELSE "transparent"],
        threw |-> FALSE]
  ELSE [nav |-> nv, threw |-> TRUE]

handleNavbarScroll(pres, y, nv) ==
  IF "nav" \in pres
  THEN [nav |-> [scrolled |-> y > scrollThreshold,
                 label    |-> IF y > scrollThreshold THEN "visible" ELSE "transparent"],
        threw |-> FALSE]
  ELSE [nav |-> nv, threw |-> FALSE]

\* the loop of updateActiveNavLink over sections[i..]: the id found, as a string
RECURSIVE FirstVisibleFrom(_, _, _, _, _)
FirstVisibleFrom(i, pres, y, ih, ch) ==
  IF i > Len(sections) THEN <<>>
  ELSE IF SectionVisible(pres, sections[i], y, ih, ch) THEN <<sections[i]>>
  ELSE FirstVisibleFrom(i + 1, pres, y, ih, ch)

\* the loop without its `break`: the last visible section wins
RECURSIVE LastVisibleFrom(_, _, _, _, _)
LastVisibleFrom(i, pres, y, ih, ch) ==
  IF i > Len(sections) THEN <<>>
  ELSE LET rest == LastVisibleFrom(i + 1, pres, y, ih, ch)
       IN  IF rest # <<>> THEN rest
           ELSE IF SectionVisible(pres, sections[i], y, ih, ch) THEN <<sections[i]>>
           ELSE <<>>

ActiveSectionLast(pres, y, ih, ch) == LastVisibleFrom(1, pres, y, ih, ch)

ActiveSection(pres, y, ih, ch) == FirstVisibleFrom(1, pres, y, ih, ch)

\* querySelectorAll('nav a.smooth-scroll'): the links live in <nav>
NavLinks(pres) == IF "nav" \in pres THEN LinkHrefs ELSE {}

\* updateActiveNavLink comparing the href with the bare id
updateActiveNavLinkBareId(pres, y, ih, ch, lk) ==
  LET activeSection == ActiveSection(pres, y, ih, ch)
  IN  [h \in LinkHrefs |->
        IF h \in NavLinks(pres)
        THEN LET isActive == (h = activeSection)
             IN  [active |-> isActive,
                  aria   |-> IF isActive THEN "page" ELSE "false"]
        ELSE lk[h]]

updateActiveNavLink(pres, y, ih, ch, lk) ==
  LET activeSection == ActiveSection(pres, y, ih, ch)
  IN  [h \in LinkHrefs |->
        IF h \in NavLinks(pres)
        THEN LET isActive == (h = <<"#">> \o activeSection)
             IN  [active |-> isActive,
                  aria   |-> IF isActive THEN "page" ELSE "false"]
        ELSE lk[h]]

(***************************************************************************)
(* scrollToElement and the session history.                                *)
(***************************************************************************)
Location(h, i) == h[i]

substring1(s) == IF s = <<>> THEN <<>> ELSE Tail(s)

\* document.getElementById(targetId): only the sections carry ids here
getElementById(pres, targetId) ==
  Len(targetId) = 1 /\ targetId[1] \in SectionIds /\ targetId[1] \in pres

\* history.pushState(null, '', url): the entries after the current one are dropped
pushState(h, i, url) == [hist |-> SubSeq(h, 1, i) \o <<url>>, hidx |-> i + 1]

\* the new URL built without window.location.search
NewUrlNoSearch(loc, targetId) ==
  [path |-> loc.path, search |-> <<>>, hash |-> <<"#">> \o targetId]

NewUrl(loc, targetId) ==
  [path |-> loc.path, search |-> loc.search, hash |-> <<"#">> \o targetId]

\* scrollToElement updating the URL before it looks the element up
scrollToElementPushFirst(pres, h, i, fc, targetId) ==
  LET pushed == pushState(h, i, NewUrl(Location(h, i), targetId))
  IN  IF getElementById(pres, targetId)
      THEN [hist |-> pushed.hist, hidx |-> pushed.hidx, focus |-> targetId[1],
            ret |-> TRUE, warns |-> 0, scrolls |-> <<targetId[1]>>, pushes |-> 1]
      ELSE [hist |-> pushed.hist, hidx |-> pushed.hidx, focus |-> fc,
            ret |-> FALSE, warns |-> 1, scrolls |-> <<>>, pushes |-> 1]

\* the outcome of scrollToElement(targetId) on history h at entry i, focus fc
scrollToElement(pres, h, i, fc, targetId) ==
  IF getElementById(pres, targetId)
  THEN LET pushed == pushState(h, i, NewUrl(Location(h, i), targetId))
       IN  [hist |-> pushed.hist, hidx |-> pushed.hidx, focus |-> targetId[1],
            ret |-> TRUE, warns |-> 0, scrolls |-> <<targetId[1]>>, pushes |-> 1]
  ELSE [hist |-> h, hidx |-> i, focus |-> fc,
        ret |-> FALSE, warns |-> 1, scrolls |-> <<>>, pushes |-> 0]

\* /^#[a-zA-Z][\w-]*$/ on a string of symbols: "#" and then one identifier
IsIdentifier(sym) == sym \in SectionIds \cup {"missing"}
validateHref(href) ==
  /\ href # <<>>
  /\ Head(href) = "#"
  /\ Len(href) > 1
  /\ Len(href) = 2 /\ IsIdentifier(href[2])

\* what a handler reports in eff
NoEff == [op |-> "none", w |-> "none", val |-> 0, ret |-> "none", warns |-> 0,
          scrolls |-> <<>>, pushes |-> 0, tracked |-> <<>>, prevented |-> FALSE,
          delay |-> 0, wasOpen |-> FALSE, called |-> FALSE, target |-> <<>>,
          sync |-> 0, span |-> 0, updated |-> FALSE, selected |-> <<>>, y |-> 0]

Ret(b) == IF b THEN "true" ELSE "false"

(***************************************************************************)
(* Click and keyboard handlers.  A handler's outcome is a record: the new  *)
(* history, focus, download button and timers, and what it reports.        *)
(***************************************************************************)
Outcome(h, i, fc, d, tms) ==
  [hist |-> h, hidx |-> i, focus |-> fc, dl |-> d, timers |-> tms,
   ret |-> "none", warns |-> 0, scrolls |-> <<>>, pushes |-> 0,
   tracked |-> <<>>, prevented |-> FALSE, called |-> FALSE, target |-> <<>>]

\* o after scrollToElement(targetId), tracking `event` when `track` allows it
WithScroll(o, pres, targetId, event, always) ==
  LET r == scrollToElement(pres, o.hist, o.hidx, o.focus, targetId)
  IN  [o EXCEPT !.hist = r.hist, !.hidx = r.hidx, !.focus = r.focus,
                !.ret = Ret(r.ret), !.warns = o.warns + r.warns,
                !.scrolls = o.scrolls \o r.scrolls,
                !.pushes = o.pushes + r.pushes,
                !.called = TRUE, !.target = targetId,
                !.tracked = IF r.ret \/ always THEN o.tracked \o <<event>>
                            ELSE o.tracked]

\* showDownloadFeedback(element): element.textContent is the button's text
showDownloadFeedback(o, t) ==
  IF t.hasButton
  THEN LET originalText == o.dl.text
           k == NewHandle(o.timers, "download")
       IN  [o EXCEPT !.dl = [text |-> "feedback", disabled |-> TRUE],
                     !.timers = setTimeout(o.timers, "download", k, FeedbackDelay,
                                           0, <<originalText>>)]
  ELSE o

\* handleDocumentClick looking for the download link before the button
handleDocumentClickDownloadFirst(o, pres, t) ==
  IF t.download
  THEN showDownloadFeedback(
         [o EXCEPT !.tracked = o.tracked \o <<<<"download", "report_pdf", <<"file">>>>>>], t)
  ELSE IF t.button
  THEN WithScroll([o EXCEPT !.prevented = TRUE], pres, <<"report">>,
                  <<"button_click", "go_to_report", <<"homepage">>>>, FALSE)
  ELSE IF t.smooth
  THEN IF validateHref(t.href)
       THEN WithScroll([o EXCEPT !.prevented = TRUE], pres, substring1(t.href),
                       <<"navigation", "smooth_scroll", substring1(t.href)>>, FALSE)
       ELSE [o EXCEPT !.prevented = TRUE, !.warns = o.warns + 1]
  ELSE o

\* handleDocumentClick(e) for a click whose target t says what closest() finds
handleDocumentClick(o, pres, t) ==
  IF t.button
  THEN WithScroll([o EXCEPT !.prevented = TRUE], pres, <<"report">>,
                  <<"button_click", "go_to_report", <<"homepage">>>>, FALSE)
  ELSE IF t.smooth
  THEN IF validateHref(t.href)
       THEN WithScroll([o EXCEPT !.prevented = TRUE], pres, substring1(t.href),
                       <<"navigation", "smooth_scroll", substring1(t.href)>>, FALSE)
       ELSE [o EXCEPT !.prevented = TRUE, !.warns = o.warns + 1]
  ELSE IF t.download
  THEN showDownloadFeedback(
         [o EXCEPT !.tracked = o.tracked \o <<<<"download", "report_pdf", <<"file">>>>>>], t)
  ELSE o

shortcuts(key) == CASE key = "1" -> <<"homepage">>
                    [] key = "2" -> <<"performance">>
                    [] key = "3" -> <<"report">>
                    [] OTHER -> <<>>

\* handleKeyboardNavigation taking the shortcuts whatever altKey is
handleKeyboardNavigationAnyAlt(o, pres, e) ==
  IF e.key \in {"Enter", " "} /\ e.tabindex
  THEN handleDocumentClick([o EXCEPT !.prevented = TRUE], pres, e.click)
  ELSE LET o1 == IF e.ctrlKey /\ shortcuts(e.key) # <<>>
                 THEN WithScroll([o EXCEPT !.prevented = TRUE], pres, shortcuts(e.key),
                                 <<"keyboard_navigation", "shortcut", shortcuts(e.key)>>,
                                 TRUE)
                 ELSE o
       IN  IF e.key = "Escape"
           THEN WithScroll(o1, pres, <<"homepage">>,
                           <<"keyboard_navigation", "escape_to_top", <<>>>>, TRUE)
           ELSE o1

\* handleKeyboardNavigation(e); e.target is described by e.tabindex (it matches
\* '[tabindex]:not(button):not(a):not(input)') and by e.click, its click target
handleKeyboardNavigation(o, pres, e) ==
  IF e.key \in {"Enter", " "} /\ e.tabindex
  THEN handleDocumentClick([o EXCEPT !.prevented = TRUE], pres, e.click)
  ELSE LET o1 == IF e.ctrlKey /\ ~e.altKey /\ shortcuts(e.key) # <<>>
                 THEN WithScroll([o EXCEPT !.prevented = TRUE], pres, shortcuts(e.key),
                                 <<"keyboard_navigation", "shortcut", shortcuts(e.key)>>,
                                 TRUE)
                 ELSE o
       IN  IF e.key = "Escape"
           THEN WithScroll(o1, pres, <<"homepage">>,
                           <<"keyboard_navigation", "escape_to_top", <<>>>>, TRUE)
           ELSE o1

\* eff after a handler with outcome o
EffOf(name, o) ==
  [NoEff EXCEPT !.op = name, !.ret = o.ret, !.warns = o.warns,
                !.scrolls = o.scrolls, !.pushes = o.pushes, !.tracked = o.tracked,
                !.prevented = o.prevented, !.called = o.called, !.target = o.target]

(***************************************************************************)
(* Startup.                                                                *)
(***************************************************************************)
SiteListeners ==
  << <<"scroll", "navbar">>, <<"scroll", "active">>, <<"resize", "resize">>,
     <<"click", "handleDocumentClick">>, <<"keydown", "handleKeyboardNavigation">>,
     <<"beforeunload", "resetScrollPosition">>, <<"popstate", "popstate">> >>

\* validateCriticalElements(): the number of elements missing
validateCriticalElements(pres) == Cardinality(Critical \ pres)

\* handleWindowResize(): --vh and the active link
handleWindowResize(pres, y, ih, ch, lk) ==
  [vh |-> ih, link |-> updateActiveNavLink(pres, y, ih, ch, lk)]

\* initializeSite(): what it leaves behind.  setupAccessibility() only stamps
\* role and aria-labelledby on <main> and <section>, which nothing reads.
initializeSite(pres, y, ih, ch, nv, lk, ls, tms, loc) ==
  LET missing == validateCriticalElements(pres)
      resized == handleWindowResize(pres, y, ih, ch, lk)
      registered == ls \o SiteListeners
      navbar == handleNavbarScroll(pres, y, nv)
      base == [nav |-> nv, link |-> resized.link, vh |-> resized.vh,
               listeners |-> registered, timers |-> tms,
               warns |-> IF missing > 0 THEN 1 ELSE 0, threw |-> FALSE,
               updated |-> TRUE, selected |-> ActiveSection(pres, y, ih, ch)]
  IN  IF navbar.threw
      THEN [base EXCEPT !.threw = TRUE]
      ELSE [base EXCEPT
              !.nav = navbar.nav,
              !.link = updateActiveNavLink(pres, y, ih, ch, resized.link),
              !.timers = IF loc.hash # <<>>
                         THEN setTimeout(tms, "hash", NewHandle(tms, "hash"),
                                         HashDelay, 0, <<>>)
                         ELSE tms]

\* resetScrollPosition deferring its second scrollTo beyond the hash scroll
resetScrollPositionLate(tms) ==
  setTimeout(tms, "reset", NewHandle(tms, "reset"), HashDelay + ResetDelay, 0, <<>>)

\* resetScrollPosition(): the timers after it
resetScrollPosition(tms) ==
  setTimeout(tms, "reset", NewHandle(tms, "reset"), ResetDelay, 0, <<>>)

PageUrl(hash) == [path |-> <<"/">>, search |-> <<"?", "lang">>, hash |-> hash]

InitWith(presents, hashes) ==
  /\ pc = "script"
  /\ readyState \in {"loading", "complete"}
  /\ present \in presents
  /\ scrollY \in {0, ScrollStep * MaxScrollSteps}
  /\ innerHeight \in Heights
  /\ clientHeight = innerHeight
  /\ rect = [exists |-> FALSE, top |-> 0, bottom |-> 0]
  /\ visible = FALSE
  /\ nav = [scrolled |-> FALSE, label |-> "none"]
  /\ \E a \in BOOLEAN :
       link = [h \in LinkHrefs |->
                 [active |-> a /\ h = <<"#", "homepage">>, aria |-> "none"]]
  /\ vh = 0
  /\ scrollRestoration = "auto"
  /\ listeners = <<>>
  /\ timers = {}
  /\ timeout = [w \in Wrappers |-> 0]
  /\ \E hash \in hashes : hist = <<PageUrl(hash)>>
  /\ hidx = 1
  /\ focus = "none"
  /\ eff = NoEff
  /\ err = FALSE
  /\ open = [w \in Wrappers |-> FALSE]
  /\ sinceCall = [w \in Wrappers |-> 0]
  /\ age = [w \in Wrappers |-> 0]
  /\ lastVal = [w \in Wrappers |-> 0]
  /\ dl = [text |-> "original", disabled |-> FALSE]
  /\ events = 0

Geometry == <<innerHeight, clientHeight, rect, visible>>
History  == <<hist, hidx, focus>>
Bursts   == <<open, sinceCall, age, lastVal>>
Counted  == events' = Min(events + 1, MaxCalls)

\* the script's top level: lines 427-435
RunScript ==
  /\ pc = "script"
  /\ LET r == IF readyState = "loading"
              THEN [nav |-> nav, link |-> link, vh |-> vh,
                    listeners |-> Append(listeners, <<"DOMContentLoaded", "initializeSite">>),
                    timers |-> timers, warns |-> 0, threw |-> FALSE,
                    updated |-> FALSE, selected |-> <<>>]
              ELSE initializeSite(present, scrollY, innerHeight, clientHeight, nav,
                                  link, listeners, timers, Location(hist, hidx))
     IN  /\ nav' = r.nav
         /\ link' = r.link
         /\ vh' = r.vh
         /\ listeners' = r.listeners
         /\ err' = r.threw
         /\ eff' = [NoEff EXCEPT !.op = "script", !.warns = r.warns,
                                 !.updated = r.updated, !.selected = r.selected,
                                 !.y = scrollY]
         /\ IF r.threw
            THEN /\ timers' = r.timers
                 /\ UNCHANGED <<scrollY, scrollRestoration>>
            ELSE /\ timers' = resetScrollPosition(r.timers)
                 /\ scrollY' = 0
                 /\ scrollRestoration' = "manual"
  /\ pc' = IF readyState = "loading" THEN "loading" ELSE "ready"
  /\ UNCHANGED <<readyState, present, Geometry, timeout, History, Bursts, dl>>
  /\ UNCHANGED events

DOMContentLoaded ==
  /\ pc = "loading"
  /\ Due(timers) = {}
  /\ LET r == initializeSite(present, scrollY, innerHeight, clientHeight, nav,
                             link, listeners, timers, Location(hist, hidx))
     IN  /\ nav' = r.nav
         /\ link' = r.link
         /\ vh' = r.vh
         /\ listeners' = r.listeners
         /\ timers' = r.timers
         /\ err' = (err \/ r.threw)
         /\ eff' = [NoEff EXCEPT !.op = "DOMContentLoaded", !.warns = r.warns,
                                 !.updated = r.updated, !.selected = r.selected,
                                 !.y = scrollY]
  /\ pc' = "ready"
  /\ UNCHANGED <<readyState, present, scrollY, scrollRestoration, Geometry, timeout,
                 History, Bursts, dl>>
  /\ UNCHANGED events

(***************************************************************************)
(* Events.  An event is delivered when no timer is due.                    *)
(***************************************************************************)
Live == pc \in {"loading", "ready"}

AgeCap(w) == 2 * Wait(w) + 1

\* the wrappers called by an event of this type open (or extend) their bursts
Called(type) == {w \in Wrappers :
                   \E i \in 1..Len(listeners) : listeners[i] = <<type, w>>}

NoteCalls(ws, val) ==
  /\ lastVal' = [w \in Wrappers |-> IF w \in ws THEN val ELSE lastVal[w]]
  /\ open' = [w \in Wrappers |-> open[w] \/ w \in ws]
  /\ sinceCall' = [w \in Wrappers |-> IF w \in ws THEN 0 ELSE sinceCall[w]]
  /\ age' = [w \in Wrappers |-> IF w \in ws /\ ~open[w] THEN 0 ELSE age[w]]

\* a scroll event at position y: both scroll listeners run
ScrollEvent(y) ==
  /\ Live
  /\ Due(timers) = {}
  /\ scrollY' = y
  /\ LET ts == CallAll(HandlersOf(listeners, "scroll"),
                       [timers |-> timers, timeout |-> timeout, invoked |-> <<>>], y)
     IN  /\ timers' = ts.timers
         /\ timeout' = ts.timeout
         /\ eff' = [NoEff EXCEPT !.op = "scroll", !.val = y, !.sync = Len(ts.invoked)]
  /\ NoteCalls(Called("scroll"), y)
  /\ UNCHANGED <<pc, readyState, present, Geometry, nav, link, vh, scrollRestoration,
                 listeners, History, err, dl>>
  /\ Counted

\* a resize event that leaves the window h high (h = innerHeight: only the
\* width changed)
ResizeEvent(h) ==
  /\ Live
  /\ Due(timers) = {}
  /\ innerHeight' = h
  /\ clientHeight' = h
  /\ LET ts == CallAll(HandlersOf(listeners, "resize"),
                       [timers |-> timers, timeout |-> timeout, invoked |-> <<>>], h)
     IN  /\ timers' = ts.timers
         /\ timeout' = ts.timeout
         /\ eff' = [NoEff EXCEPT !.op = "resize", !.val = h, !.sync = Len(ts.invoked)]
  /\ NoteCalls(Called("resize"), h)
  /\ UNCHANGED <<pc, readyState, present, scrollY, rect, visible, nav, link, vh,
                 scrollRestoration, listeners, History, err, dl>>
  /\ Counted

\* the callback `later` of wrapper t.cb: clearTimeout(timeout); func(...args)
Later(t) ==
  /\ Live
  /\ t \in Due(timers)
  /\ t.cb \in Wrappers
  /\ timers' = clearTimeout(timers \ {t}, t.cb, timeout[t.cb])
  /\ LET navbar == handleNavbarScroll(present, scrollY, nav)
         resized == handleWindowResize(present, scrollY, innerHeight, clientHeight, link)
     IN  /\ nav' = IF t.cb = "navbar" THEN navbar.nav ELSE nav
         /\ err' = (err \/ (t.cb = "navbar" /\ navbar.threw))
         /\ link' = CASE t.cb = "active" ->
                           updateActiveNavLink(present, scrollY, innerHeight,
                                               clientHeight, link)
                      [] t.cb = "resize" -> resized.link
                      [] OTHER -> link
         /\ vh' = IF t.cb = "resize" THEN resized.vh ELSE vh
  /\ eff' = [NoEff EXCEPT !.op = "later", !.w = t.cb, !.val = t.val,
                          !.delay = sinceCall[t.cb], !.wasOpen = open[t.cb],
                          !.span = age[t.cb], !.y = scrollY,
                          !.updated = (t.cb \in {"active", "resize"}),
                          !.selected = IF t.cb \in {"active", "resize"}
                                       THEN ActiveSection(present, scrollY, innerHeight,
                                                          clientHeight)
                                       ELSE <<>>]
  /\ open' = [open EXCEPT ![t.cb] = FALSE]
  /\ sinceCall' = [sinceCall EXCEPT ![t.cb] = 0]
  /\ age' = [age EXCEPT ![t.cb] = 0]
  /\ UNCHANGED <<pc, readyState, present, scrollY, Geometry, scrollRestoration,
                 listeners, timeout, History, dl, lastVal>>
  /\ UNCHANGED events

\* the deferred window.scrollTo(0, 0) of resetScrollPosition
ResetFire(t) ==
  /\ Live
  /\ t \in Due(timers)
  /\ t.cb = "reset"
  /\ timers' = timers \ {t}
  /\ scrollY' = 0
  /\ eff' = [NoEff EXCEPT !.op = "reset"]
  /\ UNCHANGED <<pc, readyState, present, Geometry, nav, link, vh, scrollRestoration,
                 listeners, timeout, History, err, Bursts, dl>>
  /\ UNCHANGED events

\* a handler's outcome o becomes the next state
Apply(name, o) ==
  /\ hist' = o.hist
  /\ hidx' = o.hidx
  /\ focus' = o.focus
  /\ dl' = o.dl
  /\ timers' = o.timers
  /\ eff' = EffOf(name, o)
  /\ Len(o.hist) <= MaxHistory
  /\ Cardinality(Pending(o.timers, "download")) <= MaxFeedback

Here == Outcome(hist, hidx, focus, dl, timers)

\* the deferred scrollToElement(window.location.hash.substring(1)) of initializeSite
HashFire(t) ==
  /\ Live
  /\ t \in Due(timers)
  /\ t.cb = "hash"
  /\ Apply("hash",
           WithScroll([Here EXCEPT !.timers = timers \ {t}], present,
                      substring1(Location(hist, hidx).hash), <<>>, FALSE))
  /\ UNCHANGED <<pc, readyState, present, scrollY, Geometry, nav, link, vh,
                 scrollRestoration, listeners, timeout, err, Bursts>>
  /\ UNCHANGED events

\* the deferred scrollToElement(hash.substring(1)) of the popstate listener
PopFire(t) ==
  /\ Live
  /\ t \in Due(timers)
  /\ t.cb = "popstate"
  /\ Apply("popfire",
           WithScroll([Here EXCEPT !.timers = timers \ {t}], present,
                      substring1(t.hash), <<>>, FALSE))
  /\ UNCHANGED <<pc, readyState, present, scrollY, Geometry, nav, link, vh,
                 scrollRestoration, listeners, timeout, err, Bursts>>
  /\ UNCHANGED events

\* the deferred restore of showDownloadFeedback; of two timers set at the same
\* instant the one set first (the lower handle) runs first
DownloadFire(t) ==
  /\ Live
  /\ t \in Due(timers)
  /\ t.cb = "download"
  /\ \A u \in Due(timers) : u.cb = "download" => u.k >= t.k
  /\ timers' = timers \ {t}
  /\ dl' = [text |-> t.hash[1], disabled |-> FALSE]
  /\ eff' = [NoEff EXCEPT !.op = "restore"]
  /\ UNCHANGED <<pc, readyState, present, scrollY, Geometry, nav, link, vh,
                 scrollRestoration, listeners, timeout, History, err, Bursts>>
  /\ UNCHANGED events

\* a click on target t
Click(t) ==
  /\ pc = "ready"
  /\ Due(timers) = {}
  /\ Apply("click",
           IF HandlersOf(listeners, "click") # <<>>
           THEN handleDocumentClick(Here, present, t)
           ELSE Here)
  /\ UNCHANGED <<pc, readyState, present, scrollY, Geometry, nav, link, vh,
                 scrollRestoration, listeners, timeout, err, Bursts>>
  /\ Counted

\* a keydown e
KeyDown(e) ==
  /\ pc = "ready"
  /\ Due(timers) = {}
  /\ Apply("keydown",
           IF HandlersOf(listeners, "keydown") # <<>>
           THEN handleKeyboardNavigation(Here, present, e)
           ELSE Here)
  /\ UNCHANGED <<pc, readyState, present, scrollY, Geometry, nav, link, vh,
                 scrollRestoration, listeners, timeout, err, Bursts>>
  /\ Counted

\* the user goes back (d = -1) or forward (d = 1): the browser moves to that
\* entry and fires popstate
Traverse(d) ==
  /\ pc = "ready"
  /\ Due(timers) = {}
  /\ hidx + d \in 1..Len(hist)
  /\ hidx' = hidx + d
  /\ LET hash == hist[hidx + d].hash
     IN  IF HandlersOf(listeners, "popstate") # <<>> /\ hash # <<>> /\ Len(hash) > 1
         THEN /\ Cardinality(Pending(timers, "popstate")) < MaxPopTimers
              /\ timers' = setTimeout(timers, "popstate", NewHandle(timers, "popstate"),
                                      PopstateDelay, 0, hash)
         ELSE timers' = timers
  /\ eff' = [NoEff EXCEPT !.op = "popstate"]
  /\ UNCHANGED <<pc, readyState, present, scrollY, Geometry, nav, link, vh,
                 scrollRestoration, listeners, timeout, hist, focus, err, Bursts, dl>>
  /\ Counted

\* the page is left: the beforeunload listener runs resetScrollPosition
BeforeUnload ==
  /\ pc = "ready"
  /\ Due(timers) = {}
  /\ pc' = "unloaded"
  /\ IF HandlersOf(listeners, "beforeunload") # <<>>
     THEN /\ scrollRestoration' = "manual"
          /\ scrollY' = 0
          /\ timers' = resetScrollPosition(timers)
     ELSE UNCHANGED <<scrollRestoration, scrollY, timers>>
  /\ eff' = [NoEff EXCEPT !.op = "beforeunload"]
  /\ UNCHANGED <<readyState, present, Geometry, nav, link, vh, listeners, timeout,
                 History, err, Bursts, dl>>
  /\ UNCHANGED events

\* d ms pass: no timer is overdue afterwards
Advance(d) ==
  /\ Live
  /\ timers # {}
  /\ d > 0
  /\ \A t \in timers : t.rem >= d
  /\ timers' = {[t EXCEPT !.rem = t.rem - d] : t \in timers}
  /\ sinceCall' = [w \in Wrappers |->
                     IF open[w] THEN Min(sinceCall[w] + d, Wait(w) + 1) ELSE sinceCall[w]]
  /\ age' = [w \in Wrappers |->
               IF open[w] THEN Min(age[w] + d, AgeCap(w)) ELSE age[w]]
  /\ eff' = [NoEff EXCEPT !.op = "advance"]
  /\ UNCHANGED <<pc, readyState, present, scrollY, Geometry, nav, link, vh,
                 scrollRestoration, listeners, timeout, History, err, open, dl,
                 lastVal>>
  /\ UNCHANGED events

\* Step ms pass while the navbar wrapper waits for its timer: the next event
\* arrives within its window of NavbarWait ms
Pause ==
  /\ \E t \in Pending(timers, "navbar") : t.rem > Step
  /\ Advance(Step)

MinRem == CHOOSE m \in {t.rem : t \in timers} : \A t \in timers : m <= t.rem

(***************************************************************************)
(* The inputs.                                                             *)
(***************************************************************************)
Target(button, smooth, href, download, hasButton) ==
  [button |-> button, smooth |-> smooth, href |-> href, download |-> download,
   hasButton |-> hasButton]

Nowhere == Target(FALSE, FALSE, <<>>, FALSE, FALSE)

ClickTargets ==
  {Target(TRUE, FALSE, <<>>, FALSE, FALSE), Nowhere,
   Target(FALSE, TRUE, <<"#", "homepage">>, FALSE, FALSE),
   Target(FALSE, TRUE, <<"#", "missing">>, FALSE, FALSE),
   Target(FALSE, TRUE, <<"#">>, FALSE, FALSE),
   Target(FALSE, TRUE, <<"report">>, FALSE, FALSE)}

SomeTargets ==
  {Target(TRUE, FALSE, <<>>, FALSE, FALSE),
   Target(FALSE, TRUE, <<"#", "homepage">>, FALSE, FALSE),
   Target(FALSE, FALSE, <<>>, TRUE, TRUE)}

Key(key, ctrl, alt, tabindex) ==
  [key |-> key, ctrlKey |-> ctrl, altKey |-> alt, tabindex |-> tabindex,
   click |-> Nowhere]

Keys ==
  {Key("2", TRUE, FALSE, FALSE), Key("4", TRUE, FALSE, FALSE),
   Key("3", TRUE, TRUE, FALSE), Key("Escape", FALSE, FALSE, FALSE),
   Key("Enter", FALSE, FALSE, TRUE)}

(***************************************************************************)
(* The page under every kind of event, each kind with few inputs.          *)
(***************************************************************************)
SomeKeys == {Key("2", TRUE, FALSE, FALSE), Key("Escape", FALSE, FALSE, FALSE)}

Next ==
  \/ RunScript
  \/ DOMContentLoaded
  \/ (events < MaxSiteEvents /\ ScrollEvent(ScrollStep * MaxScrollSteps))
  \/ (events < MaxSiteEvents /\ ResizeEvent(innerHeight))
  \/ \E t \in timers : Later(t)
  \/ \E t \in timers : ResetFire(t)
  \/ \E t \in timers : HashFire(t)
  \/ \E t \in timers : PopFire(t)
  \/ \E t \in timers : DownloadFire(t)
  \/ Advance(MinRem)
  \/ \E t \in SomeTargets : events < MaxSiteEvents /\ Click(t)
  \/ \E e \in SomeKeys : events < MaxSiteEvents /\ KeyDown(e)
  \/ \E d \in {-1, 1} : events < MaxSiteEvents /\ Traverse(d)
  \/ BeforeUnload

Init ==
  /\ InitWith(SUBSET Critical, {<<>>, <<"#", "report">>})
  /\ scrollY = 0
  /\ innerHeight = 100
  /\ ~link[<<"#", "homepage">>].active

Spec == Init /\ [][Next]_vars

(***************************************************************************)
(* The rate-limited handlers: scroll and resize events at a fine grain of  *)
(* time, on the complete page.                                             *)
(***************************************************************************)
NextThrottle ==
  \/ RunScript
  \/ DOMContentLoaded
  \/ \E y \in {0, ScrollStep * MaxScrollSteps} : events < MaxCalls /\ ScrollEvent(y)
  \/ (events < MaxCalls /\ ResizeEvent(innerHeight))
  \/ \E t \in timers : Later(t)
  \/ \E t \in timers : ResetFire(t)
  \/ Pause
  \/ Advance(MinRem)

InitThrottle ==
  /\ InitWith({Critical}, {<<>>})
  /\ scrollY = 0
  /\ innerHeight = 100
  /\ ~link[<<"#", "homepage">>].active

SpecThrottle == InitThrottle /\ [][NextThrottle]_vars

(***************************************************************************)
(* Active-section detection: scroll and resize events on every document    *)
(* (any of the critical elements may be missing), time running from        *)
(* deadline to deadline.                                                   *)
(***************************************************************************)
NextScroll ==
  \/ RunScript
  \/ DOMContentLoaded
  \/ \E y \in ScrollStops : events < MaxEvents /\ ScrollEvent(y)
  \/ \E h \in Heights : events < MaxEvents /\ ResizeEvent(h)
  \/ \E t \in timers : Later(t)
  \/ \E t \in timers : ResetFire(t)
  \/ Advance(MinRem)

InitScroll ==
  /\ InitWith(SUBSET Critical, {<<>>})
  /\ scrollY = 0
  /\ innerHeight = 100

SpecScroll == InitScroll /\ [][NextScroll]_vars

(***************************************************************************)
(* Navigation: clicks, keys, Back and Forward, and the deferred scrolls.   *)
(***************************************************************************)
NextNav ==
  \/ RunScript
  \/ DOMContentLoaded
  \/ \E t \in timers : ResetFire(t)
  \/ \E t \in timers : HashFire(t)
  \/ \E t \in timers : PopFire(t)
  \/ Advance(MinRem)
  \/ \E t \in ClickTargets : Click(t)
  \/ \E e \in Keys : KeyDown(e)
  \/ \E d \in {-1, 1} : Traverse(d)

InitNav ==
  /\ InitWith({p \cup {"nav"} : p \in SUBSET SectionIds}, {<<>>, <<"#", "report">>})
  /\ scrollY = 0
  /\ innerHeight = 100
  /\ ~link[<<"#", "homepage">>].active

SpecNav == InitNav /\ [][NextNav]_vars

(***************************************************************************)
(* The click and keyboard handlers under every kind of click target and    *)
(* of keydown, on the page once loaded.                                    *)
(***************************************************************************)
Hrefs == {<<>>, <<"#">>, <<"report">>, <<"#", "report">>, <<"#", "missing">>}

AllTargets ==
  {t \in {Target(b, s, h, d, hb) : b \in BOOLEAN, s \in BOOLEAN, h \in Hrefs,
                                   d \in BOOLEAN, hb \in BOOLEAN} :
     /\ t.smooth \/ t.href = <<>>
     /\ t.download \/ ~t.hasButton}

KeyOn(key, ctrl, alt, t) == [Key(key, ctrl, alt, TRUE) EXCEPT !.click = t]

KeyNames == {"1", "2", "3", "4", "a", "Escape", "Enter", " "}

AllKeys ==
  {Key(k, c, a, FALSE) : k \in KeyNames, c \in BOOLEAN, a \in BOOLEAN}
    \cup {KeyOn(k, c, FALSE, t) :
            k \in {"Enter", " ", "1", "Escape"}, c \in BOOLEAN,
            t \in {Nowhere, Target(TRUE, FALSE, <<>>, FALSE, FALSE),
                   Target(FALSE, TRUE, <<"#", "report">>, FALSE, FALSE)}}

NextInput ==
  \/ RunScript
  \/ \E t \in timers : ResetFire(t)
  \/ \E t \in timers : DownloadFire(t)
  \/ Advance(MinRem)
  \/ \E t \in AllTargets : events < MaxInputs /\ Click(t)
  \/ \E e \in AllKeys : events < MaxInputs /\ KeyDown(e)

InitInput ==
  /\ InitWith({p \cup {"nav"} : p \in SUBSET SectionIds}, {<<>>})
  /\ readyState = "complete"
  /\ scrollY = 0
  /\ innerHeight = 100
  /\ ~link[<<"#", "homepage">>].active

SpecInput == InitInput /\ [][NextInput]_vars

(***************************************************************************)
(* isElementVisible on its own: every box and height within the bounds.    *)
(***************************************************************************)
CheckVisible ==
  /\ pc = "visible"
  /\ visible' = isElementVisible(rect.exists, rect, innerHeight, clientHeight)
  /\ pc' = "visibleDone"
  /\ UNCHANGED <<readyState, present, scrollY, innerHeight, clientHeight, rect, nav,
                 link, vh, scrollRestoration, listeners, timers, timeout, History,
                 eff, err, Bursts, dl, events>>

InitVisible ==
  /\ pc = "visible"
  /\ \E h \in VisHeights, zero \in BOOLEAN :
       /\ innerHeight = IF zero THEN 0 ELSE h
       /\ clientHeight = h
  /\ \E top \in Coords, bottom \in Coords, exists \in BOOLEAN :
       /\ top <= bottom
       /\ exists \/ (top = 0 /\ bottom = 0)
       /\ rect = [exists |-> exists, top |-> top, bottom |-> bottom]
  /\ visible = FALSE
  /\ readyState = "complete"
  /\ present = Critical
  /\ scrollY = 0
  /\ nav = [scrolled |-> FALSE, label |-> "none"]
  /\ link = [h \in LinkHrefs |-> [active |-> FALSE, aria |-> "none"]]
  /\ vh = 0
  /\ scrollRestoration = "auto"
  /\ listeners = <<>>
  /\ timers = {}
  /\ timeout = [w \in Wrappers |-> 0]
  /\ hist = <<PageUrl(<<>>)>>
  /\ hidx = 1
  /\ focus = "none"
  /\ eff = NoEff
  /\ err = FALSE
  /\ open = [w \in Wrappers |-> FALSE]
  /\ sinceCall = [w \in Wrappers |-> 0]
  /\ age = [w \in Wrappers |-> 0]
  /\ lastVal = [w \in Wrappers |-> 0]
  /\ dl = [text |-> "original", disabled |-> FALSE]
  /\ events = 0

SpecVisible == InitVisible /\ [][CheckVisible]_vars

(***************************************************************************)
(* C1.  A wrapper returned by throttle or debounce never calls func before *)
(* it returns; func runs only from the timer, Wait(w) ms after the last    *)
(* call of a burst, with that call's arguments, and once per burst: while  *)
(* a call waits, exactly one timer of the wrapper is pending and due       *)
(* Wait(w) ms after the last call, and none is pending otherwise.          *)
(***************************************************************************)
TrailingEdgeOnly ==
  /\ eff.op \in {"scroll", "resize"} => eff.sync = 0
  /\ eff.op = "later" =>
       /\ eff.wasOpen
       /\ eff.delay = Wait(eff.w)
       /\ eff.val = lastVal[eff.w]
  /\ \A w \in Wrappers :
       /\ open[w] => /\ Cardinality(Pending(timers, w)) = 1
                     /\ \A t \in Pending(timers, w) :
                          t.rem = Wait(w) - sinceCall[w] /\ t.val = lastVal[w]
       /\ ~open[w] => Pending(timers, w) = {}

\* the scroll handler has run after a burst of several calls
BurstServedOnce ==
  /\ eff.op = "later"
  /\ eff.w = "active"
  /\ eff.span > eff.delay
  /\ eff.delay = ActiveWait

(***************************************************************************)
(* C2.  The throttled scroll handlers keep a cadence: a scroll event is    *)
(* followed by handleNavbarScroll within two windows of 16 ms and by       *)
(* updateActiveNavLink within two windows of 100 ms, however the scroll    *)
(* events keep arriving.                                                   *)
(***************************************************************************)
ScrollCadence ==
  \A w \in {"navbar", "active"} : open[w] => age[w] <= 2 * Wait(w)

(***************************************************************************)
(* C9.  The wrappers share no state: the pending timer of a wrapper is     *)
(* changed only by a call of that wrapper or by its own callback; a call   *)
(* of another wrapper, another callback and the passing of time cancel     *)
(* and re-arm nothing.                                                     *)
(***************************************************************************)
Identity(tms, w) == {[k |-> t.k, val |-> t.val] : t \in Pending(tms, w)}

Touched(e, w) ==
  \/ e.op = "scroll" /\ w \in {"navbar", "active"}
  \/ e.op = "resize" /\ w = "resize"
  \/ e.op = "later" /\ e.w = w

WrappersIndependent ==
  [][\A w \in Wrappers :
       ~Touched(eff', w) =>
         /\ Identity(timers', w) = Identity(timers, w)
         /\ eff'.op # "advance" => Pending(timers', w) = Pending(timers, w)]_vars

\* a scroll event arrived while the resize handler was waiting for its timer
ScrollDuringResize ==
  /\ eff.op = "scroll"
  /\ \E t \in Pending(timers, "resize") : t.rem < ResizeWait
  /\ \E t \in Pending(timers, "navbar") : t.rem = NavbarWait

(***************************************************************************)
(* C3.  updateActiveNavLink selects the first section, in the order        *)
(* homepage, performance, report, whose element exists and passes          *)
(* isElementVisible(section, 0.3): at most one, the earliest of those that *)
(* pass, and none exactly when no existing section passes.                 *)
(***************************************************************************)
Passes(s, y) ==
  s \in present /\ isElementVisible(TRUE, RectOf(s, y), innerHeight, clientHeight)

FirstVisibleSelected ==
  eff.updated =>
    /\ Len(eff.selected) <= 1
    /\ eff.selected = <<>> <=> \A s \in SectionIds : ~Passes(s, eff.y)
    /\ eff.selected # <<>> =>
         /\ eff.selected[1] \in SectionIds
         /\ Passes(eff.selected[1], eff.y)
         /\ \A j \in 1..(Index(eff.selected[1]) - 1) : ~Passes(sections[j], eff.y)

\* two sections pass at once and the earlier one is selected
EarlierOfTwoSelected ==
  /\ eff.op = "later"
  /\ eff.updated
  /\ Passes("performance", eff.y)
  /\ Passes("report", eff.y)
  /\ eff.selected = <<"performance">>

(***************************************************************************)
(* C4.  isElementVisible(element, 0.3) is true if and only if the vertical *)
(* overlap of the box with the viewport [0, H], min(bottom, H) -           *)
(* max(top, 0), is at least 0.3 * H.                                       *)
(***************************************************************************)
WindowHeight == IF innerHeight # 0 THEN innerHeight ELSE clientHeight
Overlap == Min(rect.bottom, WindowHeight) - Max(rect.top, 0)

LinksReflectSelection ==
  eff.updated =>
    \A h \in NavLinks(present) :
      /\ link[h].active <=> link[h].aria = "page"
      /\ ~link[h].active => link[h].aria = "false"
      /\ link[h].active => h = <<"#">> \o eff.selected
      /\ eff.selected = <<>> => ~link[h].active

(***************************************************************************)
(* C6.  Once the 100 ms timer of the scroll listener has run               *)
(* updateActiveNavLink, the nav link of every section that passes the      *)
(* visibility test has class active.                                       *)
(***************************************************************************)
SectionInViewLinkActive ==
  (eff.op = "later" /\ eff.w = "active") =>
    \A s \in SectionIds :
      (Passes(s, scrollY) /\ <<"#", s>> \in NavLinks(present))
        => link[<<"#", s>>].active

(***************************************************************************)
(* C6, amended.  Once that timer has run, the nav link of the first        *)
(* section, in the order homepage, performance, report, that passes the    *)
(* visibility test has class active.                                       *)
(***************************************************************************)
FirstSectionInViewLinkActive ==
  (eff.op = "later" /\ eff.w = "active") =>
    \A s \in SectionIds :
      (/\ Passes(s, scrollY)
       /\ \A j \in 1..(Index(s) - 1) : ~Passes(sections[j], scrollY)
       /\ <<"#", s>> \in NavLinks(present))
        => link[<<"#", s>>].active

\* the report section was scrolled into view and its link became active
ReportLinkGainedActive ==
  /\ eff.op = "later"
  /\ eff.w = "active"
  /\ eff.span > ActiveWait
  /\ Passes("report", scrollY)
  /\ ~Passes("homepage", scrollY) /\ ~Passes("performance", scrollY)
  /\ link[<<"#", "report">>].active
  /\ ~link[<<"#", "homepage">>].active

(***************************************************************************)
(* C7.  scrollToElement(targetId) with no such element returns false with  *)
(* one console warning, scrolls nothing, pushes no history entry (history  *)
(* and URL unchanged) and moves no focus; with the element it returns true.*)
(***************************************************************************)
NotFoundIsNoOp ==
  /\ [](eff.called =>
          IF getElementById(present, eff.target)
          THEN eff.ret = "true"
          ELSE /\ eff.ret = "false"
               /\ eff.warns = 1
               /\ eff.scrolls = <<>>
               /\ eff.pushes = 0)
  /\ [][(eff'.called /\ ~getElementById(present, eff'.target)) =>
          (hist' = hist /\ hidx' = hidx /\ focus' = focus)]_vars

\* a trigger asked for a section the document does not hold
MissingTargetWarned ==
  /\ eff.op = "keydown"
  /\ eff.called
  /\ eff.target = <<"performance">>
  /\ "performance" \notin present
  /\ eff.ret = "false"
  /\ eff.warns = 1
  /\ Len(hist) > 1

(***************************************************************************)
(* C8.  Nothing is fatal: whichever critical elements are missing,         *)
(* initializeSite completes and registers its seven listeners, and no      *)
(* event handler or timer callback ends in an exception.                   *)
(***************************************************************************)
NothingFatal ==
  /\ ~err
  /\ pc = "loading" => listeners = << <<"DOMContentLoaded", "initializeSite">> >>
  /\ pc \in {"ready", "unloaded"} =>
       /\ HandlersOf(listeners, "scroll") = <<"navbar", "active">>
       /\ HandlersOf(listeners, "resize") = <<"resize">>
       /\ HandlersOf(listeners, "click") = <<"handleDocumentClick">>
       /\ HandlersOf(listeners, "keydown") = <<"handleKeyboardNavigation">>
       /\ HandlersOf(listeners, "beforeunload") = <<"resetScrollPosition">>
       /\ HandlersOf(listeners, "popstate") = <<"popstate">>

\* the scroll handler ran on a document with no critical element at all
HandledWithAllMissing ==
  /\ pc = "ready"
  /\ present = {}
  /\ eff.op = "later"
  /\ eff.w = "navbar"
  /\ events = MaxSiteEvents

(***************************************************************************)
(* C10.  Every successful scrollToElement(targetId) pushes one history     *)
(* entry after the current one: the current path and query followed by     *)
(* '#' and targetId, which is then the location.                           *)
(***************************************************************************)
SuccessPushesHash ==
  [][(eff'.called /\ eff'.ret = "true") =>
       /\ hidx' = hidx + 1
       /\ Len(hist') = hidx'
       /\ SubSeq(hist', 1, hidx) = SubSeq(hist, 1, hidx)
       /\ hist'[hidx'] = [path   |-> hist[hidx].path,
                          search |-> hist[hidx].search,
                          hash   |-> <<"#">> \o eff'.target]]_vars

\* the deferred popstate callback scrolled and pushed the hash again
PopstatePushed ==
  /\ eff.op = "popfire"
  /\ eff.ret = "true"
  /\ Location(hist, hidx).hash = <<"#">> \o eff.target
  /\ Location(hist, hidx).search = <<"?", "lang">>

(***************************************************************************)
(* C11.  Back makes progress through the in-page history: the deferred     *)
(* callback of the popstate listener neither grows nor rewrites the        *)
(* history stack, so that repeated Back presses, each after the callback   *)
(* of the previous one has run, reach the entry the page was loaded with.  *)
(***************************************************************************)
PopstateKeepsHistory ==
  [][eff'.op = "popfire" => (hist' = hist /\ hidx' = hidx)]_vars

(***************************************************************************)
(* C12.  An analytics event for a navigation is recorded only when the     *)
(* navigation happened: whenever a click or a keydown called               *)
(* scrollToElement and it returned false, trackEvent was not called.       *)
(***************************************************************************)
TrackedOnlyOnSuccess ==
  (eff.op \in {"click", "keydown"} /\ eff.called /\ eff.ret = "false")
    => eff.tracked = <<>>

(***************************************************************************)
(* C13.  handleDocumentClick handles a click in exactly one branch, with   *)
(* the priority #goToReport button, a.smooth-scroll link, a[download]      *)
(* link: the button and smooth-scroll branches always call preventDefault  *)
(* (with an href that fails validateHref there is no scroll and no history *)
(* push), the download branch never does, and a click matching none of the *)
(* three changes nothing.                                                  *)
(***************************************************************************)
NoDownloadBranch ==
  /\ dl' = dl
  /\ timers' = timers
  /\ \A i \in 1..Len(eff'.tracked) : eff'.tracked[i][1] # "download"

NoScrollBranch ==
  /\ ~eff'.called
  /\ eff'.scrolls = <<>>
  /\ eff'.pushes = 0
  /\ UNCHANGED <<hist, hidx, focus>>

ClickBranch(t) ==
  IF t.button
  THEN /\ eff'.prevented
       /\ eff'.called /\ eff'.target = <<"report">>
       /\ NoDownloadBranch
  ELSE IF t.smooth
  THEN /\ eff'.prevented
       /\ NoDownloadBranch
       /\ IF validateHref(t.href)
          THEN eff'.called /\ eff'.target = substring1(t.href) /\ eff'.warns <= 1
          ELSE NoScrollBranch /\ eff'.warns = 1 /\ eff'.tracked = <<>>
  ELSE IF t.download
  THEN /\ ~eff'.prevented
       /\ NoScrollBranch
       /\ eff'.warns = 0
       /\ Len(eff'.tracked) = 1 /\ eff'.tracked[1][1] = "download"
  ELSE /\ ~eff'.prevented
       /\ NoScrollBranch
       /\ eff'.warns = 0
       /\ eff'.tracked = <<>>
       /\ dl' = dl
       /\ timers' = timers

OneBranchPerClick ==
  [][eff'.op = "click" => \A t \in AllTargets : Click(t) => ClickBranch(t)]_vars

\* a smooth-scroll link with an href that fails validateHref was clicked
InvalidHrefPrevented ==
  /\ eff.op = "click"
  /\ eff.prevented
  /\ ~eff.called
  /\ eff.warns = 1
  /\ Len(hist) > 1

(***************************************************************************)
(* C14.  Keyboard shortcuts: Ctrl without Alt and '1', '2' or '3' calls    *)
(* preventDefault and scrolls to homepage, performance or report; Escape   *)
(* scrolls to homepage; Enter or Space on an element with tabindex that is *)
(* no button, anchor or input becomes a click on that element and triggers *)
(* no shortcut; every other keydown scrolls nothing and leaves the history *)
(* alone.                                                                  *)
(***************************************************************************)
DigitSection(key) == CASE key = "1" -> "homepage"
                       [] key = "2" -> "performance"
                       [] key = "3" -> "report"

ScrolledTo(id) ==
  /\ eff'.called
  /\ eff'.target = <<id>>
  /\ IF id \in present
     THEN eff'.scrolls = <<id>> /\ eff'.ret = "true" /\ focus' = id
     ELSE eff'.scrolls = <<>> /\ eff'.ret = "false"

KeyBranch(e) ==
  IF e.key \in {"Enter", " "} /\ e.tabindex
  THEN LET clicked == handleDocumentClick(Here, present, e.click)
       IN  /\ eff'.prevented
           /\ hist' = clicked.hist /\ hidx' = clicked.hidx /\ focus' = clicked.focus
           /\ dl' = clicked.dl /\ timers' = clicked.timers
           /\ eff'.scrolls = clicked.scrolls
           /\ eff'.tracked = clicked.tracked
  ELSE IF e.ctrlKey /\ ~e.altKey /\ e.key \in {"1", "2", "3"}
  THEN eff'.prevented /\ ScrolledTo(DigitSection(e.key))
  ELSE IF e.key = "Escape"
  THEN ScrolledTo("homepage")
  ELSE NoScrollBranch /\ ~eff'.prevented /\ eff'.tracked = <<>>

KeyboardShortcuts ==
  [][eff'.op = "keydown" => \A e \in AllKeys : KeyDown(e) => KeyBranch(e)]_vars

\* Ctrl+3 scrolled to the report section
ShortcutToReport ==
  /\ eff.op = "keydown"
  /\ eff.prevented
  /\ eff.scrolls = <<"report">>
  /\ eff.tracked = << <<"keyboard_navigation", "shortcut", <<"report">>>> >>
  /\ focus = "report"

(***************************************************************************)
(* C15.  Download feedback is transient: once every feedback timer has     *)
(* fired the download button is enabled and carries the text it had before *)
(* the first click, whatever the clicks on the download link were.         *)
(***************************************************************************)
FeedbackTransient ==
  Pending(timers, "download") = {}
    => dl = [text |-> "original", disabled |-> FALSE]

(***************************************************************************)
(* C16.  On a load whose URL carries the hash of an existing element, the  *)
(* deferred scroll to the top of resetScrollPosition fires before the      *)
(* deferred hash scroll of initializeSite, in both startup paths: while    *)
(* both are pending the reset is due first, and when the hash scroll runs  *)
(* no reset is left and the hash element is the one scrolled to.           *)
(***************************************************************************)
ResetBeforeHashScroll ==
  /\ \A r \in Pending(timers, "reset"), h \in Pending(timers, "hash") : r.rem < h.rem
  /\ (pc = "loading" /\ Location(hist, hidx).hash # <<>>) =>
       Pending(timers, "hash") = {}
  /\ eff.op = "hash" =>
       /\ Pending(timers, "reset") = {}
       /\ eff.called
       /\ getElementById(present, eff.target) => eff.scrolls = <<eff.target[1]>>

\* the hash scroll ran after a start through the DOMContentLoaded listener
HashScrollAfterLoading ==
  /\ eff.op = "hash"
  /\ readyState = "loading"
  /\ eff.ret = "true"
  /\ eff.scrolls = <<"report">>
  /\ scrollY = 0

(***************************************************************************)
(* C17.  Every wrapper has at most one pending timer, and initializeSite   *)
(* runs exactly once per page load on either startup path (through the     *)
(* DOMContentLoaded listener when readyState is 'loading', directly        *)
(* otherwise), so that every listener is registered exactly once.          *)
(***************************************************************************)
OneTimerOneInit ==
  /\ \A w \in Wrappers : Cardinality(Pending(timers, w)) <= 1
  /\ listeners =
       (IF readyState = "loading" /\ pc # "script"
        THEN << <<"DOMContentLoaded", "initializeSite">> >> ELSE <<>>)
       \o (IF pc \in {"ready", "unloaded"} THEN SiteListeners ELSE <<>>)

\* a scroll event re-armed the pending timer of a burst on a page started
\* through the DOMContentLoaded listener
RearmedAfterLoading ==
  /\ eff.op = "scroll"
  /\ readyState = "loading"
  /\ age["active"] > 0
  /\ Cardinality(Pending(timers, "active")) = 1

=============================================================================
